---- MODULE Spec2Model ----
(***************************************************************************)
(* A model of the Samsung Health monthly report: steps.py (clean_ts,       *)
(* smart_load, load_day_summary_manual, the three monthly aggregators,     *)
(* summarize_steps, format_steps_section) and hrv.py (summarize_hrv and    *)
(* its helpers).                                                           *)
(*                                                                         *)
(* Representation.                                                         *)
(*  - A string is a sequence of tokens (short pieces of text); substring,  *)
(*    suffix and lower-casing are computed on the token sequence.          *)
(*  - A CSV field (a "cell") is a record [k, a, b, s]:                     *)
(*      k = "num"  a decimal number of value a * MsPerDay + b              *)
(*                 (two limbs, because the checker's integers are 32 bit   *)
(*                 and epoch milliseconds are not);                        *)
(*      k = "date" a free-text date pandas can parse, s = <<y, m, d>>;     *)
(*      k = "str"  any other text, s = its tokens (<<>> is the empty       *)
(*                 field);                                                 *)
(*      k = "nan"  a missing value (NaN) of a numeric series.              *)
(*  - A timestamp (datetime64) is <<days since 1970-01-01, ms of day>>,    *)
(*    NaT is <<>>.  An optional number is <<v>> or <<>> (NaN / None).      *)
(*  - A pandas Series or DataFrame indexed by month is a function whose    *)
(*    domain is the set of months <<year, month>>.                         *)
(***************************************************************************)
EXTENDS Integers, Sequences, FiniteSets, TLC

VARIABLES
    pc,        \* position of the run
    ped,       \* pedometer_step_count file
    day,       \* pedometer_day_summary file
    trn,       \* step_daily_trend file
    summary,   \* what summarize_steps returned
    report,    \* what format_steps_section rendered, per month
    csv,       \* the file one call of smart_load reads
    hints,     \* that call's expect argument
    layout,    \* where that file's true header is: line 1 ("single") or line 2 ("meta")
    loaded,    \* the frame that call returned
    hrv_csv,   \* the HRV index table: [exists, rows]
    json_files,\* the files under jsons/, in the order rglob lists them
    json_index,\* the index _build_json_index returned
    idx,       \* the row the loop of summarize_hrv is at
    records,   \* the records extracted so far
    log,       \* per row processed: its outcome, reference and resolved path
    daily_df,  \* the deduplicated daily frame
    monthly,   \* the monthly frame
    rerun      \* the daily frame deduplicated once more

stepVars == <<ped, day, trn, summary, report>>
loadVars == <<csv, hints, layout, loaded>>
hrvIn == <<hrv_csv, json_files>>
hrvOut == <<daily_df, monthly>>
hrvVars == <<hrvIn, json_index, idx, records, log, hrvOut, rerun>>
vars == <<pc, stepVars, loadVars, hrvVars>>

-----------------------------------------------------------------------------
(* Strings                                                                 *)

\* str.lower() of one token
LowerTok(t) ==
    CASE t = "Count" -> "count"
      [] t = "Run_Step" -> "run_step"
      [] OTHER -> t

Lower(s) == [i \in DOMAIN s |-> LowerTok(s[i])]

\* Python's  sub in s
IsInfix(sub, s) ==
    \E i \in 0..(Len(s) - Len(sub)) : SubSeq(s, i + 1, i + Len(sub)) = sub

\* Python's  s.endswith(suf)
EndsWith(s, suf) ==
    /\ Len(s) >= Len(suf)
    /\ SubSeq(s, Len(s) - Len(suf) + 1, Len(s)) = suf

RECURSIVE JoinSpace(_)
\* " ".join(strs)
JoinSpace(strs) ==
    IF strs = <<>> THEN <<>>
    ELSE IF Len(strs) = 1 THEN strs[1]
    ELSE strs[1] \o <<" ">> \o JoinSpace(Tail(strs))

-----------------------------------------------------------------------------
(* Cells, numbers, timestamps                                              *)

MsPerDay == 86400000
MinYear == 2005

Num(q, r) == [k |-> "num", a |-> q, b |-> r, s |-> <<>>]
NumV(v) == Num(0, v)
DateText(y, m, d) == [k |-> "date", a |-> 0, b |-> 0, s |-> <<y, m, d>>]
Str(toks) == [k |-> "str", a |-> 0, b |-> 0, s |-> toks]
NaN == [k |-> "nan", a |-> 0, b |-> 0, s |-> <<>>]

NaT == <<>>

\* the text of a cell when it is used as a column name: a number or a date
\* is written with digits and punctuation only
CellText(c) == IF c.k = "str" THEN c.s ELSE <<"0">>

\* days since 1970-01-01 of a civil date (proleptic Gregorian)
DaysFromCivil(y, m, d) ==
    LET yy == IF m <= 2 THEN y - 1 ELSE y
        era == yy \div 400
        yoe == yy - era * 400
        mp == IF m > 2 THEN m - 3 ELSE m + 9
        doy == (153 * mp + 2) \div 5 + d - 1
        doe == yoe * 365 + yoe \div 4 - yoe \div 100 + doy
    IN era * 146097 + doe - 719468

\* the civil date of a day number
CivilFromDays(z0) ==
    LET z == z0 + 719468
        era == z \div 146097
        doe == z - era * 146097
        yoe == (doe - doe \div 1460 + doe \div 36524 - doe \div 146096) \div 365
        doy == doe - (365 * yoe + yoe \div 4 - yoe \div 100)
        mp == (5 * doy + 2) \div 153
        d == doy - (153 * mp + 2) \div 5 + 1
        m == IF mp < 10 THEN mp + 3 ELSE mp - 9
        y == yoe + era * 400 + (IF m <= 2 THEN 1 ELSE 0)
    IN [y |-> y, m |-> m, d |-> d]

Year(ts) == CivilFromDays(ts[1]).y

\* ts.dt.to_period("M")
ToPeriodM(ts) == LET c == CivilFromDays(ts[1]) IN <<c.y, c.m>>

\* ts.dt.normalize()
Normalize(ts) == <<ts[1], 0>>

\* pd.to_numeric(x, errors="coerce") of one value
to_numeric(c) == IF c.k = "num" THEN c ELSE NaN

\* the value of a numeric cell as an integer (step counts; not epoch ms)
Val(c) == c.a * MsPerDay + c.b

\* an optional number from a cell that went through pd.to_numeric
OptVal(c) == IF c.k = "num" THEN <<Val(c)>> ELSE <<>>

\* pd.to_datetime(x, unit="ms", errors="coerce") of one numeric value
to_datetime_ms(c) == IF c.k = "num" THEN <<c.a, c.b>> ELSE NaT

\* pd.to_datetime(x, errors="coerce") of one value, reached in clean_ts only
\* when no numeric value gave a timestamp
to_datetime(c) ==
    IF c.k = "date" THEN <<DaysFromCivil(c.s[1], c.s[2], c.s[3]), 0>> ELSE NaT

RECURSIVE SumSeq(_)
SumSeq(s) == IF s = <<>> THEN 0 ELSE Head(s) + SumSeq(Tail(s))

RECURSIVE SelectIdx(_, _)
\* the indices of 1..n that are in the set keep, ascending
SelectIdx(n, keep) ==
    IF n = 0 THEN <<>>
    ELSE IF n \in keep THEN Append(SelectIdx(n - 1, keep), n)
    ELSE SelectIdx(n - 1, keep)

\* round(n / d) to an integer, ties to even (numpy's rounding)
RoundHalfEven(n, d) ==
    LET q == n \div d
        r2 == 2 * (n - q * d)
    IN IF r2 < d THEN q
       ELSE IF r2 > d THEN q + 1
       ELSE IF q % 2 = 0 THEN q ELSE q + 1

-----------------------------------------------------------------------------
(* steps.py: helpers                                                       *)

\* clean_ts: the encoding is chosen once for the whole series
clean_ts(series) ==
    LET ix == DOMAIN series
        num == [i \in ix |-> to_numeric(series[i])]
        candidate == [i \in ix |-> to_datetime_ms(num[i])]
        ts1 == IF (\E i \in ix : num[i] # NaN) /\ (\E i \in ix : candidate[i] # NaT)
               THEN candidate
               ELSE [i \in ix |-> NaT]
        parsed == [i \in ix |-> to_datetime(series[i])]
        ts2 == IF (\A i \in ix : ts1[i] = NaT) /\ (\E i \in ix : parsed[i] # NaT)
               THEN parsed
               ELSE ts1
    IN [i \in ix |-> IF ts2[i] # NaT /\ Year(ts2[i]) >= MinYear THEN ts2[i] ELSE NaT]

\* pd.DataFrame()
EmptyDF == [columns |-> <<>>, rows |-> <<>>]

\* df.empty
IsEmpty(df) == df.columns = <<>> \/ df.rows = <<>>

\* one parsed line brought to the header's width: short lines are padded
PadTo(line, n, fill) ==
    [j \in 1..n |-> IF j <= Len(line) THEN line[j] ELSE fill]

\* pd.read_csv(path, header=h, dtype=str, on_bad_lines="skip"): the columns
\* are the fields of line h, the rows are the lines after it; a line with
\* more fields than the header is a bad line, a shorter one is padded;
\* a file with no line h raises, which try_read turns into an empty frame
try_read(lines, h) ==
    IF Len(lines) < h + 1 THEN EmptyDF
    ELSE LET header == lines[h + 1]
             n == Len(header)
             body == SubSeq(lines, h + 2, Len(lines))
             good == SelectIdx(Len(body), {i \in DOMAIN body : Len(body[i]) <= n})
         IN [columns |-> [j \in 1..n |-> CellText(header[j])],
             rows |-> [i \in DOMAIN good |-> PadTo(body[good[i]], n, NaN)]]

\* any(e.lower() in " ".join(str(c).lower() for c in df.columns) for e in expect)
HasHint(df, expect) ==
    \E e \in DOMAIN expect : IsInfix(Lower(expect[e]), Lower(JoinSpace(df.columns)))

\* smart_load(path, expect): 1 if the header=1 parse is picked, else 0
PickHeader(lines, expect) ==
    LET df0 == try_read(lines, 0)
        df1 == try_read(lines, 1)
    IN IF expect # <<>>
       THEN IF HasHint(df1, expect)
               /\ (~HasHint(df0, expect) \/ Len(df1.columns) >= Len(df0.columns))
            THEN 1 ELSE 0
       ELSE IF Len(df1.columns) > Len(df0.columns) THEN 1 ELSE 0

smart_load(file, expect) ==
    IF ~file.exists THEN EmptyDF
    ELSE try_read(file.lines, PickHeader(file.lines, expect))

\* load_day_summary_manual: line 2 is the header, the lines after it are the
\* rows, padded with "" or cut to the header's width; blank lines are skipped
load_day_summary_manual(file) ==
    IF ~file.exists THEN EmptyDF
    ELSE IF Len(file.lines) < 2 THEN EmptyDF
    ELSE LET header == file.lines[2]
             n == Len(header)
             body == SubSeq(file.lines, 3, Len(file.lines))
             kept == SelectIdx(Len(body),
                               {i \in DOMAIN body : body[i] # <<Str(<<>>)>>})
         IN IF kept = <<>> THEN EmptyDF
            ELSE [columns |-> [j \in 1..n |-> CellText(header[j])],
                  rows |-> [i \in DOMAIN kept |-> PadTo(body[kept[i]], n, Str(<<>>))]]

\* next((c for c in df.columns if pat in c.lower()), None): the column's
\* position, 0 for None
FirstCol(df, pat) ==
    LET hits == {j \in DOMAIN df.columns : IsInfix(pat, Lower(df.columns[j]))}
    IN IF hits = {} THEN 0 ELSE CHOOSE j \in hits : \A k \in hits : j <= k

\* the position of the column named exactly name, 0 if there is none
ColNamed(df, name) ==
    LET hits == {j \in DOMAIN df.columns : df.columns[j] = name}
    IN IF hits = {} THEN 0 ELSE CHOOSE j \in hits : \A k \in hits : j <= k

\* df[col]
Column(df, j) == [i \in DOMAIN df.rows |-> df.rows[i][j]]

\* df.groupby("month")[value].sum() over the rows in keep
GroupSum(keep, month, value) ==
    [mo \in {month[i] : i \in keep} |->
        LET rows == SelectIdx(Len(month), {i \in keep : month[i] = mo})
        IN SumSeq([k \in DOMAIN rows |-> value[rows[k]]])]

-----------------------------------------------------------------------------
(* steps.py: aggregators                                                   *)

EmptySeries == <<>>

\* the rows are left as they are, duplicates included
SortDropDuplicates_KeepAll(valid, day_time, step_val) == valid

\* df.sort_values(["day_time", "step_val"], ascending=[True, False])
\*   .drop_duplicates("day_time", keep="first"): of the rows in valid that
\* share a raw day_time, the one with the largest step_val stays (of equal
\* ones, the earliest in the file: the sort is stable)
SortDropDuplicates(valid, day_time, step_val) ==
    {i \in valid : \A j \in valid :
        day_time[j] = day_time[i] =>
            \/ step_val[j][1] < step_val[i][1]
            \/ (step_val[j][1] = step_val[i][1] /\ i <= j)}

aggregate_day_summary(df) ==
    IF IsEmpty(df) THEN EmptySeries
    ELSE LET step_col == FirstCol(df, <<"step_", "count">>)
             day_time == ColNamed(df, <<"day_time">>)
             fallback == FirstCol(df, <<"start_time">>)
         IN IF step_col = 0 THEN EmptySeries
            ELSE IF day_time = 0 /\ fallback = 0 THEN EmptySeries
            ELSE
         LET ix == DOMAIN df.rows
             step_val == [i \in ix |-> OptVal(to_numeric(df.rows[i][step_col]))]
             ts == IF day_time # 0
                   THEN clean_ts([i \in ix |-> to_numeric(df.rows[i][day_time])])
                   ELSE clean_ts(Column(df, fallback))
             valid == {i \in ix : step_val[i] # <<>> /\ ts[i] # NaT}
             first == IF day_time = 0 THEN valid
                      ELSE SortDropDuplicates(valid, Column(df, day_time), step_val)
             month == [i \in ix |-> IF ts[i] = NaT THEN <<>> ELSE ToPeriodM(ts[i])]
             total == GroupSum(first, month, [i \in ix |-> IF i \in valid THEN step_val[i][1] ELSE 0])
             days == [mo \in DOMAIN total |->
                        Cardinality({Normalize(ts[i]) : i \in {k \in first : month[k] = mo}})]
         IN [mo \in DOMAIN total |->
                [merged |-> total[mo],
                 avg_daily |-> RoundHalfEven(total[mo] * 10, days[mo])]]

aggregate_pedometer_detailed(df) ==
    IF IsEmpty(df) THEN EmptySeries
    ELSE LET ts_col == FirstCol(df, <<"start_time">>)
             run_col == FirstCol(df, <<"run_step">>)
             walk_col == FirstCol(df, <<"walk_step">>)
             count_col == FirstCol(df, <<"count">>)
         IN IF ts_col = 0 THEN EmptySeries
            ELSE IF run_col = 0 /\ walk_col = 0 /\ count_col = 0 THEN EmptySeries
            ELSE
         LET ix == DOMAIN df.rows
             ts == clean_ts(Column(df, ts_col))
             \* pd.to_numeric(...).fillna(0), or the constant 0 for a missing column
             filled(col, i) ==
                 IF col = 0 THEN 0
                 ELSE LET v == OptVal(to_numeric(df.rows[i][col]))
                      IN IF v = <<>> THEN 0 ELSE v[1]
             steps == IF run_col # 0 \/ walk_col # 0
                      THEN [i \in ix |-> <<filled(run_col, i) + filled(walk_col, i)>>]
                      ELSE [i \in ix |-> OptVal(to_numeric(df.rows[i][count_col]))]
             valid == {i \in ix : steps[i] # <<>> /\ ts[i] # NaT}
             month == [i \in ix |-> IF ts[i] = NaT THEN <<>> ELSE ToPeriodM(ts[i])]
         IN GroupSum(valid, month, [i \in ix |-> IF i \in valid THEN steps[i][1] ELSE 0])

aggregate_trend(df) ==
    IF IsEmpty(df) THEN EmptySeries
    ELSE LET ts_col == FirstCol(df, <<"day_time">>)
             count_col == FirstCol(df, <<"count">>)
         IN IF ts_col = 0 \/ count_col = 0 THEN EmptySeries
            ELSE
         LET ix == DOMAIN df.rows
             ts == clean_ts([i \in ix |-> to_numeric(df.rows[i][ts_col])])
             steps == [i \in ix |-> OptVal(to_numeric(df.rows[i][count_col]))]
             valid == {i \in ix : steps[i] # <<>> /\ ts[i] # NaT}
             month == [i \in ix |-> IF ts[i] = NaT THEN <<>> ELSE ToPeriodM(ts[i])]
         IN GroupSum(valid, month, [i \in ix |-> IF i \in valid THEN steps[i][1] ELSE 0])

-----------------------------------------------------------------------------
(* steps.py: public interface                                              *)

PedExpect == << <<"run_step">>, <<"walk_step">> >>
TrnExpect == << <<"count">> >>

summarize_steps(pedFile, dayFile, trnFile) ==
    [merged |-> aggregate_day_summary(load_day_summary_manual(dayFile)),
     detailed |-> aggregate_pedometer_detailed(smart_load(pedFile, PedExpect)),
     trend |-> aggregate_trend(smart_load(trnFile, TrnExpect))]

\* the months collected without the trend source
ReportMonths_NoTrend(s) == DOMAIN s.merged \cup DOMAIN s.detailed

\* the months format_steps_section collects
ReportMonths(s) == DOMAIN s.merged \cup DOMAIN s.detailed \cup DOMAIN s.trend

\* the line of one month with the detailed total tried before the merged one
ReportLine_DetailedFirst(s, p) ==
    [best |-> IF p \in DOMAIN s.detailed THEN <<s.detailed[p]>>
              ELSE IF p \in DOMAIN s.merged THEN <<s.merged[p].merged>>
              ELSE IF p \in DOMAIN s.trend THEN <<s.trend[p]>>
              ELSE <<>>,
     avg |-> IF p \in DOMAIN s.merged THEN <<s.merged[p].avg_daily>> ELSE <<>>,
     comps |-> {c \in {"merged", "detailed", "trend"} : p \in DOMAIN s[c]}]

\* the line "Steps: best, avg/day ~avg" of one month, and the components line
ReportLine(s, p) ==
    [best |-> IF p \in DOMAIN s.merged THEN <<s.merged[p].merged>>
              ELSE IF p \in DOMAIN s.detailed THEN <<s.detailed[p]>>
              ELSE IF p \in DOMAIN s.trend THEN <<s.trend[p]>>
              ELSE <<>>,
     avg |-> IF p \in DOMAIN s.merged THEN <<s.merged[p].avg_daily>> ELSE <<>>,
     comps |-> {c \in {"merged", "detailed", "trend"} : p \in DOMAIN s[c]}]

format_steps_section(s) == [p \in ReportMonths(s) |-> ReportLine(s, p)]

-----------------------------------------------------------------------------
(* hrv.py: values                                                          *)
(*                                                                         *)
(* A row of the HRV index table is a record of cells (binning_data,        *)
(* update_time, create_time) and of digit strings (deviceuuid,             *)
(* create_sh_ver, modify_sh_ver; <<>> is a missing value).  A histogram    *)
(* file is [name, mtime, content]; its content is [shape, obj]: the shape  *)
(* of the JSON text and, where the object of interest is a JSON object,    *)
(* the function from its keys to its values.  sdnn and rmssd are fixed     *)
(* point numbers in tenths (412 is 41.2).                                  *)

Null == [k |-> "null", a |-> 0, b |-> 0, s |-> <<>>]

Suffix == <<".binning_", "data", ".json">>

RECURSIVE Strip(_)
\* str.strip()
Strip(s) ==
    IF s = <<>> THEN s
    ELSE IF Head(s) = " " THEN Strip(Tail(s))
    ELSE IF s[Len(s)] = " " THEN Strip(SubSeq(s, 1, Len(s) - 1))
    ELSE s

RECURSIVE RemoveAll(_, _)
\* s.replace(sub, "")
RemoveAll(s, sub) ==
    IF Len(s) < Len(sub) THEN s
    ELSE IF SubSeq(s, 1, Len(sub)) = sub
         THEN RemoveAll(SubSeq(s, Len(sub) + 1, Len(s)), sub)
    ELSE <<Head(s)>> \o RemoveAll(Tail(s), sub)

\* index.setdefault(name, []).append(p) on the insertion-ordered index
IndexAdd(index, name, p) ==
    IF \E k \in DOMAIN index : index[k].name = name
    THEN [k \in DOMAIN index |->
            IF index[k].name = name
            THEN [name |-> name, paths |-> Append(index[k].paths, p)]
            ELSE index[k]]
    ELSE Append(index, [name |-> name, paths |-> <<p>>])

RECURSIVE IndexFiles(_, _)
\* the index after the first n files of the listing; a path is the file's
\* position in the listing
IndexFiles(files, n) ==
    IF n = 0 THEN <<>>
    ELSE LET before == IndexFiles(files, n - 1)
             name == files[n].name
         IN IF ~EndsWith(name, <<".json">>) THEN before
            ELSE LET named == IndexAdd(before, name, n)
                 IN IF EndsWith(name, Suffix)
                    THEN IndexAdd(named, RemoveAll(name, Suffix) \o Suffix, n)
                    ELSE named

_build_json_index(files) == IndexFiles(files, Len(files))

\* row.values, the fields that hold free text
RowValues(row) == <<row.binning_data, row.update_time, row.create_time>>

IsRef(c) == c.k = "str" /\ EndsWith(Strip(c.s), Suffix)

\* lines 130-142: the row's histogram reference, stripped; <<>> for none
BinRef(row) ==
    IF IsRef(row.binning_data) THEN Strip(row.binning_data.s)
    ELSE LET vals == RowValues(row)
             hits == {i \in DOMAIN vals : IsRef(vals[i])}
         IN IF hits = {} THEN <<>>
            ELSE Strip(vals[CHOOSE i \in hits : \A j \in hits : i <= j].s)

\* the lookup with the substring pass tried first
ResolveRef_SubstringFirst(index, ref) ==
    LET hits == {k \in DOMAIN index :
                    IsInfix(ref, index[k].name) \/ IsInfix(index[k].name, ref)}
    IN IF hits = {} THEN 0
       ELSE index[CHOOSE k \in hits : \A j \in hits : k <= j].paths[1]

\* lines 143-155: the exact lookup, then the first indexed name that
\* contains the reference or is contained in it; 0 for no path
ResolveRef(index, ref) ==
    LET exact == {k \in DOMAIN index : index[k].name = ref}
        hits == {k \in DOMAIN index :
                    IsInfix(ref, index[k].name) \/ IsInfix(index[k].name, ref)}
    IN IF exact # {} THEN index[CHOOSE k \in exact : TRUE].paths[1]
       ELSE IF hits = {} THEN 0
       ELSE index[CHOOSE k \in hits : \A j \in hits : k <= j].paths[1]

DateKeys == <<"date", "day_time", "recorded_date", "recorded_at", "timestamp", "start_time">>

\* one candidate field: float(val) and epoch ms, else free-text parsing
DateOfField(val) ==
    IF val.k = "num" THEN to_datetime_ms(val) ELSE to_datetime(val)

\* _extract_date_from_json of a JSON object: the first candidate key, in
\* order, whose value gives a timestamp
_extract_date_from_json(obj) ==
    LET hits == {i \in DOMAIN DateKeys :
                    DateKeys[i] \in DOMAIN obj /\ DateOfField(obj[DateKeys[i]]) # NaT}
    IN IF hits = {} THEN NaT
       ELSE DateOfField(obj[DateKeys[CHOOSE i \in hits : \A j \in hits : i <= j]])

\* one row field: a string that parses to a year from 2005 on
RowFieldDate(val) ==
    IF val.k \in {"num", "date", "str"}
       /\ to_datetime(val) # NaT /\ Year(to_datetime(val)) >= MinYear
    THEN to_datetime(val) ELSE NaT

\* _date_from_row_fields: update_time, then create_time
_date_from_row_fields(row) ==
    IF RowFieldDate(row.update_time) # NaT THEN RowFieldDate(row.update_time)
    ELSE RowFieldDate(row.create_time)

SecPerDay == 86400

\* pd.to_datetime(os.path.getmtime(json_path), unit="s")
MtimeDate(mtime) == <<mtime \div SecPerDay, (mtime % SecPerDay) * 1000>>

\* the index row's fields are asked before the histogram object
ResolveDate_RowFirst(isdict, obj, row, mtime) ==
    LET fromJson == IF isdict THEN _extract_date_from_json(obj) ELSE NaT
        fromRow == _date_from_row_fields(row)
        date == IF fromRow # NaT THEN fromRow
                ELSE IF fromJson # NaT THEN fromJson
                ELSE MtimeDate(mtime)
    IN IF date = NaT THEN NaT ELSE Normalize(date)

\* lines 183-194: the date of a row, normalized; NaT if none
ResolveDate(isdict, obj, row, mtime) ==
    LET fromJson == IF isdict THEN _extract_date_from_json(obj) ELSE NaT
        fromRow == _date_from_row_fields(row)
        date == IF fromJson # NaT THEN fromJson
                ELSE IF fromRow # NaT THEN fromRow
                ELSE MtimeDate(mtime)
    IN IF date = NaT THEN NaT ELSE Normalize(date)

\* j_dict.get(key)
Get(obj, key) == IF key \in DOMAIN obj THEN obj[key] ELSE Null

\* float(x) if x is not None else None, for a value float() accepts
Coerce(val) == IF val.k = "num" THEN <<Val(val)>> ELSE <<>>

\* float(x) or int(x) raises on this value
Raises(val) == val.k \in {"str", "date"}

\* what one iteration of the loop of summarize_hrv does with a row:
\* [outcome, ref, path, record]
ProcessRow(row, files, index) ==
    LET ref == BinRef(row)
        path == IF ref = <<>> THEN 0 ELSE ResolveRef(index, ref)
        none == [outcome |-> "no_ref", ref |-> ref, path |-> path, record |-> <<>>]
    IN IF ref = <<>> THEN none
       ELSE IF path = 0 THEN [none EXCEPT !.outcome = "not_found"]
       ELSE LET file == files[path]
                shape == file.content.shape
                obj == file.content.obj
            IN IF shape = "invalid" THEN [none EXCEPT !.outcome = "parse_error"]
               ELSE IF shape = "empty_list" THEN [none EXCEPT !.outcome = "empty_list"]
               ELSE IF shape = "scalar" THEN [none EXCEPT !.outcome = "bad_shape"]
               ELSE LET isdict == shape \in {"dict", "list_dict"}
                        date == ResolveDate(isdict, obj, row, file.mtime)
                    IN IF date = NaT THEN [none EXCEPT !.outcome = "no_date"]
                       \* j_dict.get on a value that is no dict, float() or
                       \* int() on text: the exception leaves summarize_hrv
                       ELSE IF ~isdict
                               \/ Raises(Get(obj, "sdnn"))
                               \/ Raises(Get(obj, "rmssd"))
                               \/ Raises(Get(obj, "total_samples"))
                            THEN [none EXCEPT !.outcome = "raised"]
                       ELSE [outcome |-> "record", ref |-> ref, path |-> path,
                             record |-> <<[date |-> date,
                                           sdnn |-> Coerce(Get(obj, "sdnn")),
                                           rmssd |-> Coerce(Get(obj, "rmssd")),
                                           total_samples |-> Coerce(Get(obj, "total_samples")),
                                           create_sh_ver |-> row.create_sh_ver,
                                           modify_sh_ver |-> row.modify_sh_ver,
                                           deviceuuid |-> row.deviceuuid]>>]

-----------------------------------------------------------------------------
(* hrv.py: deduplication and the monthly summary                           *)

\* a < b for two strings of digits (Python's string comparison)
StrLess(a, b) ==
    \/ Len(a) < Len(b) /\ SubSeq(b, 1, Len(a)) = a
    \/ \E i \in 1..Len(a) :
          /\ i <= Len(b)
          /\ SubSeq(a, 1, i - 1) = SubSeq(b, 1, i - 1)
          /\ a[i] < b[i]

\* the order of one sort key, missing values last
KeyLess(x, y) == x # <<>> /\ (y = <<>> \/ StrLess(x, y))

\* row i is before row j in sort_values(["deviceuuid", "date", "modify_sh_ver"]),
\* a stable sort
SortsBefore(recs, i, j) ==
    LET r == recs[i]
        q == recs[j]
    IN \/ KeyLess(r.deviceuuid, q.deviceuuid)
       \/ /\ r.deviceuuid = q.deviceuuid
          /\ \/ r.date[1] < q.date[1]
             \/ /\ r.date = q.date
                /\ \/ KeyLess(r.modify_sh_ver, q.modify_sh_ver)
                   \/ r.modify_sh_ver = q.modify_sh_ver /\ i < j

SortValues(recs) ==
    LET rank(i) == Cardinality({j \in DOMAIN recs : SortsBefore(recs, j, i)}) + 1
    IN [p \in DOMAIN recs |-> recs[CHOOSE i \in DOMAIN recs : rank(i) = p]]

SameDay(r, q) == r.deviceuuid = q.deviceuuid /\ r.date = q.date

\* the rows drop_duplicates marks as duplicates, kept instead of dropped
DropDuplicates_Inverted(recs) ==
    LET keep == {p \in DOMAIN recs :
                    \E q \in DOMAIN recs : q > p /\ SameDay(recs[p], recs[q])}
        at == SelectIdx(Len(recs), keep)
    IN [k \in DOMAIN at |-> recs[at[k]]]

\* drop_duplicates(subset=["deviceuuid", "date"], keep="last")
DropDuplicates(recs) ==
    LET keep == {p \in DOMAIN recs :
                    ~\E q \in DOMAIN recs : q > p /\ SameDay(recs[p], recs[q])}
        at == SelectIdx(Len(recs), keep)
    IN [k \in DOMAIN at |-> recs[at[k]]]

\* lines 220-224
Deduplicate(recs) == DropDuplicates(SortValues(recs))

\* the mean cut to one decimal instead of rounded
MeanRounded_Truncated(vals) ==
    LET at == SelectIdx(Len(vals), {i \in DOMAIN vals : vals[i] # <<>>})
    IN IF at = <<>> THEN <<>>
       ELSE <<SumSeq([k \in DOMAIN at |-> vals[at[k]][1]]) \div Len(at)>>

\* round(pd.to_numeric(x, errors="coerce").mean(), 1), in tenths; <<>> (NaN)
\* when no value is left
MeanRounded(vals) ==
    LET at == SelectIdx(Len(vals), {i \in DOMAIN vals : vals[i] # <<>>})
    IN IF at = <<>> THEN <<>>
       ELSE <<RoundHalfEven(SumSeq([k \in DOMAIN at |-> vals[at[k]][1]]), Len(at))>>

\* lines 225-236: the monthly frame of a daily frame
Monthly(daily) ==
    [mo \in {ToPeriodM(daily[i].date) : i \in DOMAIN daily} |->
        LET at == SelectIdx(Len(daily),
                            {i \in DOMAIN daily : ToPeriodM(daily[i].date) = mo})
        IN [avg_rmssd |-> MeanRounded([k \in DOMAIN at |-> daily[at[k]].rmssd]),
            avg_sdnn |-> MeanRounded([k \in DOMAIN at |-> daily[at[k]].sdnn]),
            days_with_hrv |-> Cardinality({daily[at[k]].date : k \in DOMAIN at})]]

-----------------------------------------------------------------------------
(* The step files the runs start from                                      *)

StepsMaxRows == 1
PedMaxRows == 2
DayMaxRows == 3

SeqsUpTo(S, n) == UNION {[1..k -> S] : k \in 0..n}

Missing == [exists |-> FALSE, lines |-> <<>>]
FileOf(meta, header, rows) == [exists |-> TRUE, lines |-> <<meta, header>> \o rows]
\* a file whose first line is the header
FileSingle(header, rows) == [exists |-> TRUE, lines |-> <<header>> \o rows]

\* line 1 of an export: the data type's name and two numbers
MetaLine(name) == <<Str(name), NumV(6312001), NumV(14)>>

PedMeta == MetaLine(<<"com.samsung.shealth.tracker.pedometer_", "step_", "count">>)
DayMeta == MetaLine(<<"com.samsung.shealth.tracker.pedometer_day_summary">>)
TrnMeta == MetaLine(<<"com.samsung.shealth.step_daily_trend">>)

PedHeader == <<Str(<<"start_time">>), Str(<<"run_step">>), Str(<<"walk_step">>)>>
PedCountHeader == <<Str(<<"start_time">>), Str(<<"count">>)>>
DayHeader == <<Str(<<"step_", "count">>), Str(<<"day_time">>)>>
TrnHeader == <<Str(<<"day_time">>), Str(<<"count">>)>>

Junk == Str(<<"abc">>)

\* 2023-06-01 00:00 (epoch ms 1685577600000) and 2023-07-01 01:00
June1 == Num(19509, 0)
July1 == Num(19539, 3600000)

StepsTs == {June1, July1, Junk}

\* every source may be missing; a row's timestamp is in June, in July or
\* unreadable; the step values are the day-summary's 9000, the detailed
\* 8700 and the trend's 9100
StepsPedFiles ==
    {Missing} \cup
    {FileOf(PedMeta, PedHeader, rows) :
        rows \in SeqsUpTo({<<t, NumV(8700), NumV(0)>> : t \in StepsTs}, StepsMaxRows)}
StepsDayFiles ==
    {Missing} \cup
    {FileOf(DayMeta, DayHeader, rows) :
        rows \in SeqsUpTo({<<NumV(9000), t>> : t \in StepsTs}, StepsMaxRows)}
StepsTrnFiles ==
    {Missing} \cup
    {FileOf(TrnMeta, TrnHeader, rows) :
        rows \in SeqsUpTo({<<t, NumV(9100)>> : t \in StepsTs}, StepsMaxRows)}

\* the pedometer files: with the run/walk columns under a metadata line, or
\* with the generic count column under a header on line 1 (with the hints
\* run_step and walk_step, smart_load finds no other header of such a file).
\* The timestamps of the pedometer file: epoch ms in and before the valid
\* years, free-text dates in and before the valid years, and text that is
\* neither
PedTs == {June1, Num(0, 0), DateText(2023, 7, 15), DateText(1999, 12, 31), Junk}

PedFiles ==
    {FileOf(PedMeta, PedHeader, rows) :
        rows \in SeqsUpTo({<<t, r, w>> : t \in PedTs, r \in {NumV(100), Junk},
                                          w \in {NumV(20), Junk}}, PedMaxRows)}
    \cup
    {FileSingle(PedCountHeader, rows) :
        rows \in SeqsUpTo({<<t, c>> : t \in PedTs, c \in {NumV(120), Junk}}, PedMaxRows)}

\* the day-summary files: up to DayMaxRows rows, so that several rows can
\* share a day_time; a day_time is one of two days of June, a day of July, a
\* day before the valid years, or text; a step value is 100, 250 or text
June2Midnight == Num(19510, 0)
DayTs == {June1, June2Midnight, July1, Num(0, 0), Junk}
DaySteps == {NumV(100), NumV(250), Junk}

DayFiles ==
    {FileOf(DayMeta, DayHeader, rows) :
        rows \in SeqsUpTo({<<v, t>> : v \in DaySteps, t \in DayTs}, DayMaxRows)}

NoSummary == [merged |-> <<>>, detailed |-> <<>>, trend |-> <<>>]

-----------------------------------------------------------------------------
(* The run of the step section: main calls summarize_steps, then           *)
(* format_steps_section                                                    *)

SummarizeSteps ==
    /\ pc = "start"
    /\ summary' = summarize_steps(ped, day, trn)
    /\ pc' = "summarized"
    /\ UNCHANGED <<ped, day, trn, report, loadVars, hrvVars>>

FormatStepsSection ==
    /\ pc = "summarized"
    /\ report' = format_steps_section(summary)
    /\ pc' = "formatted"
    /\ UNCHANGED <<ped, day, trn, summary, loadVars, hrvVars>>

NextSteps == SummarizeSteps \/ FormatStepsSection

\* the variables of the other parts of the program, at rest
LoadIdle ==
    /\ csv = Missing
    /\ hints = <<>>
    /\ layout = "single"
    /\ loaded = EmptyDF

HrvIdle ==
    /\ hrv_csv = [exists |-> FALSE, rows |-> <<>>]
    /\ json_files = <<>>
    /\ json_index = <<>>
    /\ idx = 0
    /\ records = <<>>
    /\ log = <<>>
    /\ daily_df = <<>>
    /\ monthly = <<>>
    /\ rerun = <<>>

InitSteps ==
    /\ pc = "start"
    /\ ped \in StepsPedFiles
    /\ day \in StepsDayFiles
    /\ trn \in StepsTrnFiles
    /\ summary = NoSummary
    /\ report = <<>>
    /\ LoadIdle
    /\ HrvIdle

\* the three step sources together
SpecSteps == InitSteps /\ [][NextSteps]_vars

InitPed ==
    /\ pc = "start"
    /\ ped \in PedFiles
    /\ day = Missing
    /\ trn = Missing
    /\ summary = NoSummary
    /\ report = <<>>
    /\ LoadIdle
    /\ HrvIdle

\* the detailed pedometer source alone, with every kind of timestamp
SpecPed == InitPed /\ [][NextSteps]_vars

InitDay ==
    /\ pc = "start"
    /\ ped = Missing
    /\ day \in DayFiles
    /\ trn = Missing
    /\ summary = NoSummary
    /\ report = <<>>
    /\ LoadIdle
    /\ HrvIdle

\* the day-summary source alone, with repeated day_time values
SpecDay == InitDay /\ [][NextSteps]_vars

-----------------------------------------------------------------------------
(* One call of smart_load with hints                                       *)

LoadMaxRows == 2

\* data values: a timestamp, a number, and two texts that contain a hint
LoadCells == {June1, NumV(120), Str(<<"my_", "count">>), Str(<<"Run_Step">>)}

LoadRows == SeqsUpTo({<<x, y>> : x \in LoadCells, y \in LoadCells}, LoadMaxRows)

\* the headers that match the hints of a call
LoadCalls ==
    {[hints |-> PedExpect, header |-> PedHeader],
     [hints |-> TrnExpect, header |-> TrnHeader],
     [hints |-> TrnExpect, header |-> PedCountHeader]}

LoadMetas == {TrnMeta, <<Str(<<"export">>)>>}

SmartLoad ==
    /\ pc = "load"
    /\ loaded' = smart_load(csv, hints)
    /\ pc' = "loaded"
    /\ UNCHANGED <<csv, hints, layout, stepVars, hrvVars>>

NextLoad == SmartLoad

StepsIdle ==
    /\ ped = Missing
    /\ day = Missing
    /\ trn = Missing
    /\ summary = NoSummary
    /\ report = <<>>

InitLoad ==
    /\ pc = "load"
    /\ \E c \in LoadCalls, rows \in LoadRows :
          /\ hints = c.hints
          /\ \/ /\ layout = "single"
                /\ csv = FileSingle(c.header, rows)
             \/ /\ layout = "meta"
                /\ \E meta \in LoadMetas : csv = FileOf(meta, c.header, rows)
    /\ loaded = EmptyDF
    /\ StepsIdle
    /\ HrvIdle

\* smart_load on files whose true header matches the hints
SpecLoad == InitLoad /\ [][NextLoad]_vars

-----------------------------------------------------------------------------
(* The run of summarize_hrv: the table and the index are loaded, the loop  *)
(* takes one row at a time, then the records are deduplicated and          *)
(* aggregated.  An exception that nothing catches ends the run ("raised"). *)

HrvLoad ==
    /\ pc = "hrv_start"
    /\ IF ~hrv_csv.exists \/ hrv_csv.rows = <<>>
       THEN /\ pc' = "hrv_done"
            /\ UNCHANGED <<json_index, idx>>
       ELSE /\ json_index' = _build_json_index(json_files)
            /\ idx' = 1
            /\ pc' = "hrv_rows"
    /\ UNCHANGED <<hrvIn, records, log, hrvOut, rerun, stepVars, loadVars>>

HrvRow ==
    /\ pc = "hrv_rows"
    /\ LET out == ProcessRow(hrv_csv.rows[idx], json_files, json_index)
       IN /\ log' = Append(log, [outcome |-> out.outcome, ref |-> out.ref,
                                 path |-> out.path])
          /\ records' = records \o out.record
          /\ pc' = IF out.outcome = "raised" THEN "raised"
                   ELSE IF idx = Len(hrv_csv.rows) THEN "extracted"
                   ELSE "hrv_rows"
    /\ idx' = idx + 1
    /\ UNCHANGED <<hrvIn, json_index, hrvOut, rerun, stepVars, loadVars>>

HrvFinish ==
    /\ pc = "extracted"
    /\ daily_df' = IF records = <<>> THEN <<>> ELSE Deduplicate(records)
    /\ monthly' = IF records = <<>> THEN <<>> ELSE Monthly(Deduplicate(records))
    /\ pc' = "hrv_done"
    /\ UNCHANGED <<hrvIn, json_index, idx, records, log, rerun, stepVars, loadVars>>

\* the deduplication of lines 220-224 applied to the daily frame again
Rededuplicate ==
    /\ pc = "hrv_done"
    /\ daily_df # <<>>
    /\ rerun' = Deduplicate(daily_df)
    /\ pc' = "rerun"
    /\ UNCHANGED <<hrvIn, json_index, idx, records, log, hrvOut, stepVars, loadVars>>

NextHrv == HrvLoad \/ HrvRow \/ HrvFinish

NextHrvDedup == HrvLoad \/ HrvRow \/ HrvFinish \/ Rededuplicate

HrvStart ==
    /\ pc = "hrv_start"
    /\ json_index = <<>>
    /\ idx = 0
    /\ records = <<>>
    /\ log = <<>>
    /\ daily_df = <<>>
    /\ monthly = <<>>
    /\ rerun = <<>>
    /\ StepsIdle
    /\ LoadIdle

HrvMaxRows == 2
MaxFiles == 2
MaxEntries == 3

\* last-modified times: 2023-06-01 10:00, and the epoch
NewMtime == 19509 * SecPerDay + 36000
OldMtime == 0 * SecPerDay

NoObj == [key \in {} |-> Null]
GoodVals == ("sdnn" :> NumV(500)) @@ ("rmssd" :> NumV(412)) @@ ("total_samples" :> NumV(10))

Content(shape, obj) == [shape |-> shape, obj |-> obj]
JsonFile(name, dir, mtime, content) ==
    [name |-> name, dir |-> dir, mtime |-> mtime, content |-> content]

IndexRow(ref, update, create, dev, ver) ==
    [binning_data |-> ref, update_time |-> update, create_time |-> create,
     deviceuuid |-> dev, create_sh_ver |-> <<1>>, modify_sh_ver |-> ver]

(* ---- histogram contents of every shape, names that match exactly ---- *)

\* a file's content and last-modified time
ParseVariants ==
    {[mtime |-> NewMtime, content |-> Content("invalid", NoObj)],
     [mtime |-> NewMtime, content |-> Content("empty_list", NoObj)],
     [mtime |-> NewMtime, content |-> Content("scalar", NoObj)],
     [mtime |-> NewMtime, content |-> Content("list_scalar", NoObj)],
     [mtime |-> NewMtime, content |-> Content("dict", GoodVals @@ ("date" :> June1))],
     [mtime |-> NewMtime,
      content |-> Content("list_dict", GoodVals @@ ("day_time" :> DateText(2023, 7, 15)))],
     [mtime |-> NewMtime, content |-> Content("dict", GoodVals @@ ("date" :> Num(0, 0)))],
     [mtime |-> NewMtime,
      content |-> Content("dict", GoodVals @@ ("recorded_at" :> DateText(1999, 12, 31)))],
     [mtime |-> NewMtime, content |-> Content("dict", GoodVals)],
     [mtime |-> OldMtime, content |-> Content("dict", GoodVals)],
     [mtime |-> NewMtime,
      content |-> Content("dict", GoodVals @@ ("date" :> Junk) @@ ("start_time" :> July1))],
     [mtime |-> NewMtime,
      content |-> Content("dict", ("sdnn" :> Junk) @@ ("rmssd" :> Null) @@ ("date" :> June1))],
     [mtime |-> NewMtime,
      content |-> Content("dict", GoodVals @@ ("timestamp" :> DateText(2023, 7, 15))
                                           @@ ("day_time" :> June1))]}

ParseName(i) == <<ToString(i)>> \o Suffix

\* update_time and create_time of a row
ParseTimes ==
    {<<DateText(2023, 8, 2), Junk>>, <<DateText(1999, 1, 1), DateText(2024, 1, 5)>>,
     <<DateText(1999, 1, 1), Junk>>, <<NaN, NaN>>}

ParseRows ==
    SeqsUpTo({IndexRow(Str(ParseName(i)), t[1], t[2], <<1>>, <<1>>) :
                 i \in 1..2, t \in ParseTimes}, HrvMaxRows)

InitHrvParse ==
    /\ HrvStart
    /\ \E rows \in ParseRows : hrv_csv = [exists |-> TRUE, rows |-> rows]
    /\ \E v1 \in ParseVariants, v2 \in ParseVariants :
          json_files = <<JsonFile(ParseName(1), "jsons", v1.mtime, v1.content),
                         JsonFile(ParseName(2), "jsons", v2.mtime, v2.content)>>

\* summarize_hrv over histogram files of every content
SpecHrvParse == InitHrvParse /\ [][NextHrv]_vars

(* ---- well-formed histograms under names that match or nearly match ---- *)

ResolveNames ==
    {<<"abc123">> \o Suffix, <<"device1_", "abc123">> \o Suffix,
     <<"xyz789">> \o Suffix, <<"data", ".json">>}

ResolveFiles ==
    {JsonFile(n, d, NewMtime, Content("dict", GoodVals @@ ("date" :> June1))) :
        n \in ResolveNames, d \in {"jsons", "jsons/old"}}

ResolveListings ==
    {fs \in SeqsUpTo(ResolveFiles, MaxFiles) :
        \A i, j \in DOMAIN fs : i # j => fs[i] # fs[j]}

ResolveRefs ==
    {Str(<<"abc123">> \o Suffix), Str(<<" ", "xyz789">> \o Suffix \o <<" ">>),
     Str(<<"abc123">>), NaN}

ResolveRows ==
    SeqsUpTo({IndexRow(r, DateText(2023, 8, 2), NaN, <<1>>, <<1>>) : r \in ResolveRefs},
             HrvMaxRows)

InitHrvResolve ==
    /\ HrvStart
    /\ \E rows \in ResolveRows : hrv_csv = [exists |-> TRUE, rows |-> rows]
    /\ json_files \in ResolveListings

\* summarize_hrv over directories whose names match the references or not
SpecHrvResolve == InitHrvResolve /\ [][NextHrv]_vars

(* ---- entries of few devices and days, one histogram per row ---- *)

Entry(dev, date, ver, rmssd, sdnn) ==
    [dev |-> dev, date |-> date, ver |-> ver, rmssd |-> rmssd, sdnn |-> sdnn]

June2 == Num(19510, 7200000)

Entries ==
    {Entry(<<1>>, June1, <<9>>, NumV(412), NumV(500)),
     Entry(<<1>>, June1, <<1, 0>>, NumV(428), Null),
     Entry(<<1>>, June1, <<>>, Null, NumV(520)),
     Entry(<<1>>, June2, <<9>>, NumV(428), NumV(510)),
     Entry(<<2>>, June1, <<9>>, NumV(440), NumV(500)),
     Entry(<<1>>, July1, <<1, 0>>, NumV(415), Null),
     Entry(<<>>, June2, <<7>>, NumV(440), NumV(515))}

EntryRow(e, i) == IndexRow(Str(ParseName(i)), NaN, NaN, e.dev, e.ver)
EntryFile(e, i) ==
    JsonFile(ParseName(i), "jsons", NewMtime,
             Content("dict", ("date" :> e.date) @@ ("rmssd" :> e.rmssd) @@ ("sdnn" :> e.sdnn)))

InitHrvDedup ==
    /\ HrvStart
    /\ \E es \in SeqsUpTo(Entries, MaxEntries) :
          /\ hrv_csv = [exists |-> TRUE, rows |-> [i \in DOMAIN es |-> EntryRow(es[i], i)]]
          /\ json_files = [i \in DOMAIN es |-> EntryFile(es[i], i)]

\* summarize_hrv over rows that share devices and days, and the
\* deduplication applied once more to its result
SpecHrvDedup == InitHrvDedup /\ [][NextHrvDedup]_vars

-----------------------------------------------------------------------------
(* Claims about the step pipelines                                         *)

\* the data rows of a pedometer file: the lines after its header
DataRows(file) ==
    SubSeq(file.lines, IF file.lines[1] = PedCountHeader THEN 2 ELSE 3, Len(file.lines))

\* a timestamp field that resolves on its own: epoch ms, or a free-text
\* date, of a year from 2005 on
ResolvesAlone(c) ==
    \/ c.k = "num" /\ Year(<<c.a, c.b>>) >= MinYear
    \/ c.k = "date" /\ c.s[1] >= MinYear

\* the calendar month such a field stands for
MonthOf(c) == IF c.k = "num" THEN ToPeriodM(<<c.a, c.b>>) ELSE <<c.s[1], c.s[2]>>

\* the row's step value is numeric (run/walk columns count a non-number as 0)
HasSteps(row) == Len(row) = 3 \/ row[2].k = "num"

\* C2: in the step pipelines every row whose timestamp resolves on its own
\* (valid epoch ms, or a parseable date, year >= 2005) normalizes to that
\* date and is kept, whatever the timestamps of the other rows are: its
\* month is in the pipeline's result.
C2_PerValueNormalization ==
    pc = "summarized" =>
        \A i \in DOMAIN DataRows(ped) :
            LET row == DataRows(ped)[i]
            IN (ResolvesAlone(row[1]) /\ HasSteps(row)) =>
                   MonthOf(row[1]) \in DOMAIN summary.detailed

\* C3: for every reported month the authoritative figure is the day-summary
\* merged total if the month is in the day-summary result, else the
\* detailed total if the month is in the detailed result, else the trend
\* total.
C3_Precedence ==
    pc = "formatted" =>
        \A p \in DOMAIN report :
            /\ p \in DOMAIN summary.merged =>
                   report[p].best = <<summary.merged[p].merged>>
            /\ (p \notin DOMAIN summary.merged /\ p \in DOMAIN summary.detailed) =>
                   report[p].best = <<summary.detailed[p]>>
            /\ (p \notin DOMAIN summary.merged /\ p \notin DOMAIN summary.detailed) =>
                   report[p].best = <<summary.trend[p]>>

\* a month with day-summary 9000, detailed 8700 and trend 9100 reports 9000
C3_Witness ==
    /\ pc = "formatted"
    /\ <<2023, 6>> \in DOMAIN report
    /\ <<2023, 6>> \in DOMAIN summary.merged
    /\ summary.merged[<<2023, 6>>].merged = 9000
    /\ <<2023, 6>> \in DOMAIN summary.detailed
    /\ summary.detailed[<<2023, 6>>] = 8700
    /\ <<2023, 6>> \in DOMAIN summary.trend
    /\ summary.trend[<<2023, 6>>] = 9100
    /\ report[<<2023, 6>>].best = <<9000>>

\* the months one source alone yields
DayMonths(file) == DOMAIN aggregate_day_summary(load_day_summary_manual(file))
PedMonths(file) == DOMAIN aggregate_pedometer_detailed(smart_load(file, PedExpect))
TrnMonths(file) == DOMAIN aggregate_trend(smart_load(file, TrnExpect))

\* C4: the reported months are exactly the union of the months of the three
\* pipelines; with the day-summary file missing the run still ends, no month
\* has a merged total or a daily average, and the detailed and trend totals
\* are what they are with any day-summary file present.
C4_UnionAndMissingDaySummary ==
    pc = "formatted" =>
        /\ DOMAIN report = DayMonths(day) \cup PedMonths(ped) \cup TrnMonths(trn)
        /\ ~day.exists =>
              /\ summary.merged = <<>>
              /\ \A p \in DOMAIN report :
                    report[p].avg = <<>> /\ "merged" \notin report[p].comps
              /\ \A d \in StepsDayFiles :
                    /\ summarize_steps(ped, d, trn).detailed = summary.detailed
                    /\ summarize_steps(ped, d, trn).trend = summary.trend

\* no day-summary file, and the other two sources report different months
C4_Witness ==
    /\ pc = "formatted"
    /\ ~day.exists
    /\ DOMAIN summary.detailed = {<<2023, 6>>}
    /\ DOMAIN summary.trend = {<<2023, 7>>}
    /\ DOMAIN report = {<<2023, 6>>, <<2023, 7>>}
    /\ report[<<2023, 6>>].best = <<8700>>
    /\ report[<<2023, 7>>].best = <<9100>>

\* the members of a sequence
Range(seq) == {seq[i] : i \in DOMAIN seq}

RECURSIVE SumOver(_, _)
\* the sum of f[x] over the members x of the finite set S
SumOver(S, f) ==
    IF S = {} THEN 0
    ELSE LET x == CHOOSE y \in S : TRUE IN f[x] + SumOver(S \ {x}, f)

\* the largest member of a non-empty set of numbers
Max(S) == CHOOSE x \in S : \A y \in S : y <= x

\* the data rows of a day-summary file (columns step_count, day_time)
DayRows(file) == SubSeq(file.lines, 3, Len(file.lines))

\* a valid day-summary row: numeric step value, and a day_time in epoch ms
\* of a year from 2005 on
DayValid(row) == row[1].k = "num" /\ row[2].k = "num" /\ Year(<<row[2].a, row[2].b>>) >= MinYear

\* the distinct raw day_time values of the valid rows of a month
DayTimesOf(file, mo) ==
    {r[2] : r \in {q \in Range(DayRows(file)) : DayValid(q) /\ MonthOf(q[2]) = mo}}

\* the largest step value among the valid rows with the day_time t
DayMax(file, t) ==
    Max({Val(r[1]) : r \in {q \in Range(DayRows(file)) : DayValid(q) /\ q[2] = t}})

\* C11: in the day-summary pipeline the months of the result are the months
\* of the valid rows, and merged_total of a month is the sum, over the
\* distinct raw day_time values of the month's valid rows, of the largest
\* step value among the valid rows with that day_time: duplicate rows of one
\* day_time count once, by their maximum.
C11_MergedTotalOncePerDayTime ==
    pc = "summarized" =>
        LET months == {MonthOf(r[2]) : r \in {q \in Range(DayRows(day)) : DayValid(q)}}
        IN /\ DOMAIN summary.merged = months
           /\ \A mo \in months :
                 summary.merged[mo].merged =
                     SumOver(DayTimesOf(day, mo), [t \in DayTimesOf(day, mo) |-> DayMax(day, t)])

\* June 1 is exported twice, with 100 and with 250 steps, and June 2 once
\* with 100: June's merged total is 350
C11_Witness ==
    /\ pc = "summarized"
    /\ DayRows(day) = << <<NumV(100), June1>>, <<NumV(250), June1>>, <<NumV(100), June2Midnight>> >>
    /\ summary.merged[<<2023, 6>>].merged = 350

\* the data rows of a trend file (columns day_time, count)
TrnRows(file) == SubSeq(file.lines, 3, Len(file.lines))

\* a pedometer row's metric is numeric: the count, or with run/walk columns
\* at least one of the two
PedNumeric(row) ==
    IF Len(row) = 3 THEN row[2].k = "num" \/ row[3].k = "num" ELSE row[2].k = "num"

\* C12: in each of the three step pipelines a month is in the result only
\* if some row of that month has a resolvable timestamp and a numeric
\* metric value; a row with a non-numeric metric contributes nothing, also
\* in the detailed pipeline with run-step/walk-step columns.
C12_MonthNeedsNumericRow ==
    pc = "summarized" =>
        /\ \A mo \in DOMAIN summary.detailed :
              \E r \in Range(DataRows(ped)) :
                  ResolvesAlone(r[1]) /\ MonthOf(r[1]) = mo /\ PedNumeric(r)
        /\ \A mo \in DOMAIN summary.merged :
              \E r \in Range(DayRows(day)) :
                  ResolvesAlone(r[2]) /\ MonthOf(r[2]) = mo /\ r[1].k = "num"
        /\ \A mo \in DOMAIN summary.trend :
              \E r \in Range(TrnRows(trn)) :
                  ResolvesAlone(r[1]) /\ MonthOf(r[1]) = mo /\ r[2].k = "num"

\* C5: smart_load with hints returns the columns of the true header line:
\* line 2 of a file that starts with a metadata line, line 1 of a
\* single-header file, whatever the data rows contain.
C5_TrueHeaderSelected ==
    pc = "loaded" =>
        LET header == csv.lines[IF layout = "meta" THEN 2 ELSE 1]
        IN loaded.columns = [j \in DOMAIN header |-> CellText(header[j])]

-----------------------------------------------------------------------------
(* Claims about summarize_hrv                                              *)

\* C1: every entry summarize_hrv produces has a date of year 2005 or later,
\* whichever step of the fallback chain gave the date (a field of the
\* histogram object, the row's update_time/create_time, the file's
\* last-modified time).
C1_EntryYearAtLeast2005 ==
    \A i \in DOMAIN records : Year(records[i].date) >= MinYear

\* the positions of the listed files whose name is the reference
ExactMatches(ref) == {p \in DOMAIN json_files : json_files[p].name = ref}

\* the positions of the listed files whose name contains the reference or
\* is contained in it
SubstringMatches(ref) ==
    {p \in DOMAIN json_files :
        IsInfix(ref, json_files[p].name) \/ IsInfix(json_files[p].name, ref)}

First(S) == CHOOSE p \in S : \A q \in S : p <= q

C15_OnlyHistogramFilesRead ==
    \A i \in DOMAIN log :
        log[i].path # 0 => EndsWith(json_files[log[i].path].name, Suffix)

\* the JSON text is no object and no array that starts with an object
Malformed(content) == content.shape \notin {"dict", "list_dict"}

\* C9: a malformed histogram file (unparseable text, empty array, scalar
\* top level, array whose first element is no object) never ends the run:
\* the row is skipped.
C9_MalformedFileSkipped ==
    \A i \in DOMAIN log :
        (log[i].path # 0 /\ Malformed(json_files[log[i].path].content)) =>
            log[i].outcome \in {"parse_error", "empty_list", "bad_shape"}

\* C13: record assembly never ends the run on the content of sdnn, rmssd
\* or total_samples: for a histogram object whose date resolves, whatever
\* the three fields hold (missing, null, a number, text), the row yields a
\* record with each field a number or null, and the rows after it are
\* processed.
C13_AssemblyNeverAborts ==
    \A i \in DOMAIN log :
        (/\ log[i].path # 0
         /\ ~Malformed(json_files[log[i].path].content)
         /\ log[i].outcome # "no_date") =>
            /\ log[i].outcome = "record"
            /\ i < Len(hrv_csv.rows) => pc # "raised"

\* the record that row i of the table produced: records holds one entry for
\* every row whose outcome is "record", in the order of the rows
RecordOf(i) == records[Cardinality({j \in 1..i : log[j].outcome = "record"})]

\* candidate key k of the histogram object resolves to a date
KeyResolves(obj, k) ==
    DateKeys[k] \in DOMAIN obj /\ DateOfField(obj[DateKeys[k]]) # NaT

\* C14: the date of a row is resolved in a fixed order, first success wins:
\* the first of the histogram object's candidate fields date, day_time,
\* recorded_date, recorded_at, timestamp, start_time that resolves; if none
\* does, the row's update_time, then its create_time (year >= 2005); if
\* neither does, the file's last-modified time; the row is skipped for want
\* of a date only if all three fail.
C14_DateFallbackOrder ==
    \A i \in DOMAIN log :
        (log[i].path # 0 /\ ~Malformed(json_files[log[i].path].content)) =>
            LET file == json_files[log[i].path]
                obj == file.content.obj
                row == hrv_csv.rows[i]
                noKey == \A k \in DOMAIN DateKeys : ~KeyResolves(obj, k)
                upd == RowFieldDate(row.update_time)
                cre == RowFieldDate(row.create_time)
            IN /\ log[i].outcome = "record" =>
                    LET d == RecordOf(i).date
                    IN /\ \A k \in DOMAIN DateKeys :
                             (KeyResolves(obj, k) /\ \A j \in 1..(k - 1) : ~KeyResolves(obj, j)) =>
                                 d = Normalize(DateOfField(obj[DateKeys[k]]))
                       /\ (noKey /\ upd # NaT) => d = Normalize(upd)
                       /\ (noKey /\ upd = NaT /\ cre # NaT) => d = Normalize(cre)
                       /\ (noKey /\ upd = NaT /\ cre = NaT) =>
                             d = Normalize(MtimeDate(file.mtime))
               /\ log[i].outcome = "no_date" =>
                    noKey /\ upd = NaT /\ cre = NaT /\ MtimeDate(file.mtime) = NaT

\* row 1: the object's date is text that is no date and its start_time is
\* July 1, the row's update_time is in August: July 1 is used.  Row 2: the
\* object has no candidate field, update_time is of 1999 and create_time of
\* 2024: the create_time is used.
C14_Witness ==
    /\ pc = "extracted"
    /\ Len(log) = 2 /\ Len(records) = 2
    /\ log[1].path = 1 /\ log[2].path = 2
    /\ json_files[1].content.obj = GoodVals @@ ("date" :> Junk) @@ ("start_time" :> July1)
    /\ hrv_csv.rows[1].update_time = DateText(2023, 8, 2)
    /\ records[1].date = <<19539, 0>>
    /\ json_files[2].content.obj = GoodVals
    /\ hrv_csv.rows[2].update_time = DateText(1999, 1, 1)
    /\ hrv_csv.rows[2].create_time = DateText(2024, 1, 5)
    /\ records[2].date = <<DaysFromCivil(2024, 1, 5), 0>>

\* the number a string of digits stands for
RECURSIVE DigitsVal(_)
DigitsVal(ds) == IF ds = <<>> THEN 0 ELSE DigitsVal(SubSeq(ds, 1, Len(ds) - 1)) * 10 + ds[Len(ds)]

\* C6: after deduplication there is at most one entry per (device, date),
\* and for a pair that had duplicates the survivor is the one with the
\* greatest modify version among them.
C6_OnePerDayGreatestVersion ==
    pc = "hrv_done" =>
        /\ \A i, j \in DOMAIN daily_df : i # j => ~SameDay(daily_df[i], daily_df[j])
        /\ \A i \in DOMAIN daily_df : \A j \in DOMAIN records :
              (SameDay(daily_df[i], records[j]) /\ records[j].modify_sh_ver # <<>>) =>
                  /\ daily_df[i].modify_sh_ver # <<>>
                  /\ DigitsVal(daily_df[i].modify_sh_ver) >= DigitsVal(records[j].modify_sh_ver)

Entries_of(frame) == {frame[i] : i \in DOMAIN frame}

\* C7: deduplicating an already deduplicated entry set yields the same set
\* of entries.
C7_DedupIdempotent ==
    pc = "rerun" =>
        /\ Entries_of(rerun) = Entries_of(daily_df)
        /\ Len(rerun) = Len(daily_df)

\* the first deduplication dropped entries and left several
C7_Witness ==
    /\ pc = "rerun"
    /\ Len(daily_df) < Len(records)
    /\ Len(daily_df) >= 2
    /\ rerun = daily_df

\* the non-null values of one column of the surviving entries of a month
MonthValues(mo, col) ==
    LET at == SelectIdx(Len(daily_df),
                        {i \in DOMAIN daily_df :
                            ToPeriodM(daily_df[i].date) = mo /\ daily_df[i][col] # <<>>})
    IN [k \in DOMAIN at |-> daily_df[at[k]][col][1]]

Abs(x) == IF x < 0 THEN -x ELSE x

\* avg (in tenths) is the mean of vals rounded to the nearest tenth; no
\* average without a value
IsRoundedMean(avg, vals) ==
    IF vals = <<>> THEN avg = <<>>
    ELSE avg # <<>> /\ 2 * Abs(Len(vals) * avg[1] - SumSeq(vals)) <= Len(vals)

\* C10: for every month, avg_rmssd and avg_sdnn are the mean of the
\* non-null values of the month's surviving entries, rounded to the nearest
\* 0.1; null values do not count in the divisor.
C10_MonthlyMeanRounded ==
    pc = "hrv_done" =>
        /\ DOMAIN monthly = {ToPeriodM(daily_df[i].date) : i \in DOMAIN daily_df}
        /\ \A mo \in DOMAIN monthly :
              /\ IsRoundedMean(monthly[mo].avg_rmssd, MonthValues(mo, "rmssd"))
              /\ IsRoundedMean(monthly[mo].avg_sdnn, MonthValues(mo, "sdnn"))

\* RMSSD 41.2, 42.8 and 44.0 in one month average to 42.7
C10_Witness ==
    /\ pc = "hrv_done"
    /\ <<2023, 6>> \in DOMAIN monthly
    /\ {MonthValues(<<2023, 6>>, "rmssd")[k] :
            k \in DOMAIN MonthValues(<<2023, 6>>, "rmssd")} = {412, 428, 440}
    /\ Len(MonthValues(<<2023, 6>>, "rmssd")) = 3
    /\ monthly[<<2023, 6>>].avg_rmssd = <<427>>

====
